---- MODULE Spec2Model ----
(***************************************************************************)
(* Model of src/index.js: the ProStore API client.                         *)
(*                                                                         *)
(* Strings are sequences of one-character strings, so that the regular     *)
(* expression replacements, the concatenations and toLowerCase are         *)
(* computed character by character.  JavaScript values are tagged records  *)
(* (field t is the typeof-like tag).  A call either returns or throws:     *)
(* Return(v) / Throw(e).                                                   *)
(***************************************************************************)
EXTENDS Integers, Sequences, FiniteSets, TLC

\* ------------------------------------------------------------------ bounds
MaxCalls == 2        \* calls made on the client (verb methods, request())
MaxSends == 2        \* requests instantiated from low-level templates
MaxSlashes == 2      \* trailing slashes of options.url, leading ones of an endpoint
MaxUrlCalls == 2     \* direct calls of client.url(endpoint)

\* ------------------------------------------------------- program constants
NonceLen == 32       \* utils.randomString(32)
ErrorStatus == 400   \* res.statusCode >= 400

\* --------------------------------------------------------- JavaScript values
Undefined == [t |-> "undefined"]
Null == [t |-> "null"]
Str(s) == [t |-> "string", s |-> s]
Callback(i) == [t |-> "function", cb |-> i]
Method(name) == [t |-> "function", method |-> name]
Object(props) == [t |-> "object", props |-> props]
EmptyObject == Object(<<>>)
Error(name, message) == [t |-> "object", name |-> name, message |-> message]
Response(statusCode) == [t |-> "object", statusCode |-> statusCode]

Return(v) == [t |-> "return", v |-> v]
Throw(e) == [t |-> "throw", e |-> e]

typeof(v) == IF v.t = "null" THEN "object" ELSE v.t

Truthy(v) ==
  CASE v.t = "undefined" -> FALSE
    [] v.t = "null" -> FALSE
    [] v.t = "string" -> Len(v.s) > 0
    [] OTHER -> TRUE

\* ------------------------------------------------------------ string helpers
RECURSIVE StripTrailingSlashes(_)
\* s.replace(/\/+$/, '')
StripTrailingSlashes(s) ==
  IF Len(s) > 0 /\ s[Len(s)] = "/"
  THEN StripTrailingSlashes(SubSeq(s, 1, Len(s) - 1))
  ELSE s

\* s.replace(/^\//, '')
StripLeadingSlash(s) ==
  IF Len(s) > 0 /\ s[1] = "/" THEN Tail(s) ELSE s

UpperCase == <<"A","B","C","D","E","F","G","H","I","J","K","L","M",
               "N","O","P","Q","R","S","T","U","V","W","X","Y","Z">>
LowerCase == <<"a","b","c","d","e","f","g","h","i","j","k","l","m",
               "n","o","p","q","r","s","t","u","v","w","x","y","z">>

\* String.prototype.toLowerCase
toLowerCase(s) ==
  [i \in 1..Len(s) |->
     IF \E k \in 1..26 : UpperCase[k] = s[i]
     THEN LowerCase[CHOOSE k \in 1..26 : UpperCase[k] = s[i]]
     ELSE s[i]]

DecimalDigit == <<"0","1","2","3","4","5","6","7","8","9">>

RECURSIVE NumberToString(_)
\* '...' + n, for a non-negative integer n
NumberToString(n) ==
  IF n < 10 THEN <<DecimalDigit[n + 1]>>
  ELSE NumberToString(n \div 10) \o <<DecimalDigit[(n % 10) + 1]>>

\* ------------------------------------------------------------------- utils
\* The alphabet the nonce is drawn from: an uppercase letter, a lowercase
\* letter and a digit stand for the three character classes.
Alphabet == <<"A", "b", "7">>

RECURSIVE randomString(_, _)
\* utils.randomString(len): len characters of the alphabet, decided by the
\* value rnd the random source yields.
randomString(len, rnd) ==
  IF len = 0 THEN <<>>
  ELSE <<Alphabet[(rnd % Len(Alphabet)) + 1]>>
         \o randomString(len - 1, rnd \div Len(Alphabet))

\* utils.sha256(data): the lowercase hex digest, as an ideal hash (two
\* digests are equal exactly when their inputs are).
sha256(data) == [sha256hex |-> data]

\* --------------------------------------------------------------- ApiClient
\* new ApiClient(options): the instance's own properties.
ApiClient(options) ==
  [url |-> StripTrailingSlashes(options.url),
   userId |-> options.userId,
   privateToken |-> options.privateToken]

OwnProperties == {"url", "userId", "privateToken"}

\* this.<name>: an own property of the instance hides the member of
\* ApiClient.prototype with the same name.
GetProperty(self, name) ==
  IF name \in OwnProperties THEN Str(self[name]) ELSE Method(name)

\* get baseUrl()
baseUrl(self) == self.url \o <<"/", "a", "p", "i">>

\* ApiClient.prototype.url = function(endpoint)
url(self, endpoint) == baseUrl(self) \o <<"/">> \o StripLeadingSlash(endpoint)

\* what calling a non-function, or reading a property of undefined, throws
TypeError == Error("TypeError", <<"T", "y", "p", "e", "E", "r", "r", "o", "r">>)
PrimitiveFailure == Error("Error", <<"p", "r", "i", "m", "i", "t", "i", "v", "e">>)

\* this.url(endpoint), as an expression evaluated on an instance
CallUrl(self, endpoint) ==
  IF typeof(GetProperty(self, "url")) = "function"
  THEN Return(Str(url(self, endpoint)))
  ELSE Throw(TypeError)

UserIdHeader == "ProStore-Auth-UserId"
NonceHeader == "ProStore-Auth-Nonce"
TokenHeader == "ProStore-Auth-Token"

\* headers computed once and kept: every read returns the first nonce
headersMemoized(self, rnd) ==
  IF ~rnd.ok THEN Throw(PrimitiveFailure)
  ELSE LET nonce == randomString(NonceLen, 0)
           token == sha256(nonce \o <<":">> \o self.privateToken)
       IN Return((UserIdHeader :> self.userId)
                 @@ (NonceHeader :> nonce)
                 @@ (TokenHeader :> token))

\* headers whose digest leaves out the ':' between nonce and private token
headersNoSeparator(self, rnd) ==
  IF ~rnd.ok THEN Throw(PrimitiveFailure)
  ELSE LET nonce == randomString(NonceLen, rnd.v)
           token == sha256(nonce \o self.privateToken)
       IN Return((UserIdHeader :> self.userId)
                 @@ (NonceHeader :> nonce)
                 @@ (TokenHeader :> token))

\* get headers(): rnd.v is what the random source yields for this read
\* (rnd.ok = FALSE: the random or hash primitive throws).
headers(self, rnd) ==
  IF ~rnd.ok THEN Throw(PrimitiveFailure)
  ELSE LET nonce == randomString(NonceLen, rnd.v)
           token == sha256(nonce \o <<":">> \o self.privateToken)
       IN Return((UserIdHeader :> self.userId)
                 @@ (NonceHeader :> nonce)
                 @@ (TokenHeader :> token))

\* Whether request(method, endpoint) gets as far as reading this.headers.
ReadsHeaders(self, endpoint) ==
  ~Truthy(endpoint) \/ CallUrl(self, endpoint.s).t = "return"

\* request() going on without credentials when their derivation fails
requestSwallowing(self, method, endpoint, rnd) ==
  LET m == IF Truthy(method) THEN Str(toLowerCase(method.s)) ELSE Undefined
      u == IF Truthy(endpoint) THEN CallUrl(self, endpoint.s) ELSE Return(Undefined)
      h == headers(self, rnd)
  IN Return([method |-> m,
             url |-> IF u.t = "throw" THEN Undefined ELSE u.v,
             headers |-> IF h.t = "throw" THEN Undefined ELSE h.v,
             json |-> TRUE])

\* ApiClient.prototype.request = function(method, endpoint): the defaults
\* handed to request.defaults, or the exception thrown on the way.
request(self, method, endpoint, rnd) ==
  LET m == IF Truthy(method) THEN Str(toLowerCase(method.s)) ELSE Undefined
      u == IF Truthy(endpoint) THEN CallUrl(self, endpoint.s) ELSE Return(Undefined)
  IN IF u.t = "throw" THEN u
     ELSE LET h == headers(self, rnd)
          IN IF h.t = "throw" THEN h
             ELSE Return([method |-> m, url |-> u.v, headers |-> h.v, json |-> TRUE])

\* request.defaults(defaults)(options, ...): the request the transport
\* sends, the options laid over the template's defaults.
Merge(defaults, options) ==
  LET over(k) == IF options.t = "object" /\ k \in DOMAIN options.props
                 THEN options.props[k] ELSE defaults[k]
  IN [method |-> over("method"), url |-> over("url"),
      headers |-> over("headers"), json |-> over("json"),
      options |-> options]

\* the verb method without its overload resolution
ResolveArgsAsGiven(options, cb) == [options |-> options, cb |-> cb]

\* function(endpoint, options, cb): if (typeof options == 'function') ...
ResolveArgs(options, cb) ==
  IF typeof(options) = "function"
  THEN [options |-> EmptyObject, cb |-> options]
  ELSE [options |-> options, cb |-> cb]

\* cb(...): calling something that is not a function throws.
Invoke(cb, args) ==
  IF typeof(cb) = "function" THEN Return([cb |-> cb, args |-> args])
  ELSE Throw(TypeError)

ServerReturned == <<"S","e","r","v","e","r"," ","r","e","t","u","r","n","e","d"," ">>

\* Handler reading the status before looking at err
HandlerStatusFirst(cb, err, res, data) ==
  IF res.t # "object" THEN Throw(TypeError)
  ELSE IF res.statusCode >= ErrorStatus
       THEN Invoke(cb, <<Error("Error", ServerReturned \o NumberToString(res.statusCode))>>)
       ELSE IF Truthy(err) THEN Invoke(cb, <<err>>) ELSE Invoke(cb, <<Null, data>>)

\* Handler with > in place of >=
HandlerGreater(cb, err, res, data) ==
  IF Truthy(err) THEN Invoke(cb, <<err>>)
  ELSE IF res.t # "object" THEN Throw(TypeError)
  ELSE IF res.statusCode > ErrorStatus
       THEN Invoke(cb, <<Error("Error", ServerReturned \o NumberToString(res.statusCode))>>)
       ELSE Invoke(cb, <<Null, data>>)

\* Handler passing the response where the body belongs
HandlerPassesResponse(cb, err, res, data) ==
  IF Truthy(err) THEN Invoke(cb, <<err>>)
  ELSE IF res.t # "object" THEN Throw(TypeError)
  ELSE IF res.statusCode >= ErrorStatus
       THEN Invoke(cb, <<Error("Error", ServerReturned \o NumberToString(res.statusCode))>>)
       ELSE Invoke(cb, <<Null, res>>)

\* function(err, res, data) given to the transport by a verb method
Handler(cb, err, res, data) ==
  IF Truthy(err) THEN Invoke(cb, <<err>>)
  ELSE IF res.t # "object" THEN Throw(TypeError)
  ELSE IF res.statusCode >= ErrorStatus
       THEN Invoke(cb, <<Error("Error", ServerReturned \o NumberToString(res.statusCode))>>)
       ELSE Invoke(cb, <<Null, data>>)

\* ------------------------------------------------------------------ inputs
Slashes(k) == [i \in 1..k |-> "/"]
Hosts == {<<"x">>}
Urls == {h \o Slashes(k) : h \in Hosts, k \in 0..MaxSlashes}
UserIds == {<<"u">>}
Tokens == {<<"p">>}
\* the constructor's options: any url / the url with one trailing slash
UrlConfigs == [url : Urls, userId : UserIds, privateToken : Tokens]
Configs == [url : {h \o Slashes(1) : h \in Hosts}, userId : UserIds,
            privateToken : Tokens]
\* two clients that differ in user id and private token
AuthConfigs == Configs \cup {[url |-> <<"x">>, userId |-> <<"v">>,
                              privateToken |-> <<"q", "r">>]}

Paths == {<<"a">>, <<"a", "/", "b">>}
UrlEndpoints == {Slashes(k) \o p : k \in 0..MaxSlashes, p \in Paths}
Endpoints == {<<>>, <<"a">>}
Verbs == {<<"g","e","t">>, <<"p","o","s","t">>, <<"p","u","t">>,
          <<"d","e","l","e","t","e">>}
LowLevelMethods == {Str(<<"P","O","S","T">>), Undefined}
UrlOption == Object("url" :> Str(<<"y">>))
JsonOption == Object("json" :> FALSE)
OptionValues == {EmptyObject, UrlOption}

TransportError == Error("Error", <<"E","C","O","N","N","R","E","S","E","T">>)
Statuses == {399, 400, 404}
Bodies == {Object("ok" :> TRUE)}
Outcomes ==
  {[err |-> TransportError, res |-> Undefined, data |-> Undefined]}
  \cup {[err |-> Null, res |-> Response(st), data |-> b] : st \in Statuses, b \in Bodies}

\* ------------------------------------------------------------------- state
VARIABLES
  config,     \* the options the client was constructed from
  client,     \* the instance's own properties
  entropy,    \* how many values the random source has yielded
  calls,      \* the verb-method calls made, in call order
  templates,  \* the results of the direct calls of request(method, endpoint)
  sent,       \* the requests handed to the transport
  urlCalls    \* the direct calls of client.url(endpoint), with their results

vars == <<config, client, entropy, calls, templates, sent, urlCalls>>

Constructed(configs) ==
  /\ config \in configs
  /\ client = ApiClient(config)
  /\ entropy = 0
  /\ calls = <<>>
  /\ templates = <<>>
  /\ sent = <<>>
  /\ urlCalls = <<>>

Init == Constructed(Configs)

InitAuth == Constructed(AuthConfigs)

InitUrl == Constructed(UrlConfigs)

\* The random source is a stream of pairwise distinct values: a read yields
\* the next one, or the primitive throws.
Draw(ok) == IF ok THEN [ok |-> TRUE, v |-> entropy] ELSE [ok |-> FALSE]

Consume(endpoint, ok) ==
  IF ReadsHeaders(client, endpoint) /\ ok THEN entropy + 1 ELSE entropy

\* a callback kept in one place shared by all calls: the latest call's
CallbackShared(i) == calls[Len(calls)].cb

\* The callback the completion handler of call i closes over.
CallbackOf(i) == calls[i].cb

\* client.url(endpoint), called by the user
UrlCall(endpoint) ==
  /\ Len(urlCalls) < MaxUrlCalls
  /\ urlCalls' = Append(urlCalls, [endpoint |-> endpoint,
                                   result |-> CallUrl(client, endpoint)])
  /\ UNCHANGED <<config, client, entropy, calls, templates, sent>>

\* client.get|post|put|delete(...args): up to the dispatch of the request
VerbMethod(method, args, ok) ==
  /\ Len(calls) + Len(templates) < MaxCalls
  /\ LET endpoint == args[1]
         a == ResolveArgs(IF Len(args) >= 2 THEN args[2] ELSE Undefined,
                          IF Len(args) >= 3 THEN args[3] ELSE Undefined)
         r == request(client, Str(method), endpoint, Draw(ok))
         call == [method |-> method, args |-> args, cb |-> a.cb,
                  options |-> a.options, completion |-> <<>>, invoked |-> <<>>]
     IN /\ entropy' = Consume(endpoint, ok)
        /\ IF r.t = "throw"
           THEN /\ calls' = Append(calls, call @@ [state |-> "thrown", thrown |-> <<r.e>>])
                /\ sent' = sent
           ELSE /\ calls' = Append(calls, call @@ [state |-> "inflight", thrown |-> <<>>])
                /\ sent' = Append(sent, [via |-> "verb", from |-> Len(calls) + 1,
                                         req |-> Merge(r.v, a.options)])
  /\ UNCHANGED <<config, client, templates, urlCalls>>

\* The transport completes the request of call i: the handler runs.
Complete(i, o) ==
  /\ i \in DOMAIN calls
  /\ calls[i].state = "inflight"
  /\ LET h == Handler(CallbackOf(i), o.err, o.res, o.data)
     IN calls' = [calls EXCEPT ![i] =
                    [@ EXCEPT !.completion = <<o>>,
                              !.state = IF h.t = "throw" THEN "crashed" ELSE "done",
                              !.thrown = IF h.t = "throw" THEN <<h.e>> ELSE <<>>,
                              !.invoked = IF h.t = "throw" THEN @ ELSE Append(@, h.v)]]
  /\ UNCHANGED <<config, client, entropy, templates, sent, urlCalls>>

\* client.request(method, endpoint), called by the user
LowLevelRequest(method, endpoint, ok) ==
  /\ Len(calls) + Len(templates) < MaxCalls
  /\ templates' = Append(templates, request(client, method, endpoint, Draw(ok)))
  /\ entropy' = Consume(endpoint, ok)
  /\ UNCHANGED <<config, client, calls, sent, urlCalls>>

\* The user instantiates a request from template k: r(options, ...)
Instantiate(k, options) ==
  /\ k \in DOMAIN templates
  /\ templates[k].t = "return"
  /\ Cardinality({j \in DOMAIN sent : sent[j].via = "template"}) < MaxSends
  /\ sent' = Append(sent, [via |-> "template", from |-> k,
                           req |-> Merge(templates[k].v, options)])
  /\ UNCHANGED <<config, client, entropy, calls, templates, urlCalls>>

VerbArgs ==
  {<<Str(e), Callback(Len(calls) + 1)>> : e \in Endpoints}
  \cup {<<Str(e), o, Callback(Len(calls) + 1)>> : e \in Endpoints, o \in OptionValues}

Call == \E m \in Verbs, a \in VerbArgs, ok \in BOOLEAN : VerbMethod(m, a, ok)

Completion == \E i \in DOMAIN calls, o \in Outcomes : Complete(i, o)

Template ==
  \E m \in LowLevelMethods, e \in Endpoints, ok \in BOOLEAN :
    LowLevelRequest(m, Str(e), ok)

Send == \E k \in DOMAIN templates : Instantiate(k, JsonOption)

BuildUrl == \E e \in UrlEndpoints : UrlCall(e)

\* The client used through its verb methods.
Next == Call \/ Completion

Spec == Init /\ [][Next]_vars

\* What the client hands to the transport, through verb methods and through
\* low-level templates (what the transport answers does not change it).
NextAuth == Call \/ Template \/ Send

SpecAuth == InitAuth /\ [][NextAuth]_vars

\* client.url(endpoint) on clients constructed from any url.
NextUrl == BuildUrl

SpecUrl == InitUrl /\ [][NextUrl]_vars

\* ------------------------------------------------------- claim vocabulary
\* The callback the caller passed to call i: its last argument.
Supplied(i) == calls[i].args[Len(calls[i].args)]

Completed(i) == Len(calls[i].completion) = 1
OutcomeOf(i) == calls[i].completion[1]
TransportFailed(i) == Completed(i) /\ OutcomeOf(i).err.t # "null"
Answered(i) == Completed(i) /\ OutcomeOf(i).err.t = "null"
StatusOf(i) == OutcomeOf(i).res.statusCode
SentBy(i) == {j \in DOMAIN sent : sent[j].via = "verb" /\ sent[j].from = i}

IsError(v) == v.t = "object" /\ "message" \in DOMAIN v
Contains(s, sub) ==
  \E k \in 0..(Len(s) - Len(sub)) : SubSeq(s, k + 1, k + Len(sub)) = sub
\* the decimal text of the status codes the transport answers with
StatusText ==
  (399 :> <<"3", "9", "9">>) @@ (400 :> <<"4", "0", "0">>) @@ (404 :> <<"4", "0", "4">>)

TwoArgs(i) == Len(calls[i].args) = 2
EmptyOptions(i) == Len(calls[i].args) = 3 /\ calls[i].args[2] = EmptyObject

\* ------------------------------------------------------------------ claims
\* C1 (as claimed): no call dispatches more than one request, and every
\* verb-method call that is over (it returned to its caller without a
\* request in flight, or its request completed) has invoked its callback
\* exactly once.  A call cut short by a failing random or hash primitive,
\* which is none of the outcomes the claim lists, is left aside.
C1_ExactlyOneCallback ==
  \A i \in DOMAIN calls :
    /\ Cardinality(SentBy(i)) <= 1
    /\ (calls[i].state # "inflight" /\ calls[i].thrown # <<PrimitiveFailure>>) =>
         Len(calls[i].invoked) = 1

\* C4: when the transport completes a call with an error, the handler ends
\* normally (it never reads the missing response) having invoked the caller's
\* callback once, with that error as the only argument.
C4_TransportErrorPassedAlone ==
  \A i \in DOMAIN calls :
    TransportFailed(i) =>
      /\ calls[i].state = "done"
      /\ calls[i].invoked = <<[cb |-> Supplied(i), args |-> <<OutcomeOf(i).err>>]>>

C4_Witness ==
  \E i \in DOMAIN calls :
    /\ TransportFailed(i)
    /\ OutcomeOf(i).res.t = "undefined"
    /\ Len(calls[i].invoked) = 1

\* C5: when the transport answers a call with a status of 400 or more, the
\* callback is invoked once with one argument, an error whose message
\* contains the decimal status code; the body is not passed.
C5_HttpErrorCarriesStatus ==
  \A i \in DOMAIN calls :
    (Answered(i) /\ StatusOf(i) >= 400) =>
      /\ Len(calls[i].invoked) = 1
      /\ calls[i].invoked[1].cb = Supplied(i)
      /\ Len(calls[i].invoked[1].args) = 1
      /\ IsError(calls[i].invoked[1].args[1])
      /\ Contains(calls[i].invoked[1].args[1].message, StatusText[StatusOf(i)])

C5_Witness ==
  \E i \in DOMAIN calls :
    /\ Answered(i)
    /\ StatusOf(i) = 400
    /\ calls[i].options = UrlOption
    /\ Len(calls[i].invoked) = 1

\* C6: when the transport answers a call with a status below 400, the
\* callback is invoked once with (null, body), body being the one the
\* transport delivered for that request.
C6_SuccessPassesBody ==
  \A i \in DOMAIN calls :
    (Answered(i) /\ StatusOf(i) < 400) =>
      calls[i].invoked = <<[cb |-> Supplied(i), args |-> <<Null, OutcomeOf(i).data>>]>>

C6_Witness ==
  \E i \in DOMAIN calls :
    /\ Answered(i)
    /\ StatusOf(i) = 399
    /\ calls[i].options = UrlOption
    /\ Len(calls[i].invoked) = 1

HeaderNames == {UserIdHeader, NonceHeader, TokenHeader}

\* C7 (as claimed): every error that arises during a verb-method call (the
\* call threw while preparing the request, the transport failed, or the
\* status was 400 or more) reaches the caller's callback as its first
\* argument.
C7_EveryErrorThroughCallback ==
  \A i \in DOMAIN calls :
    (calls[i].state = "thrown" \/ TransportFailed(i)
       \/ (Answered(i) /\ StatusOf(i) >= 400)) =>
      /\ Len(calls[i].invoked) = 1
      /\ calls[i].invoked[1].cb = Supplied(i)
      /\ IsError(calls[i].invoked[1].args[1])

\* C7 (amended): a transport error and a status of 400 or more reach the
\* caller's callback as its first argument; a failure while deriving the
\* credentials or preparing the request is thrown to the caller by the verb
\* method itself, before anything is dispatched and without the callback
\* being invoked.  No error is swallowed: the handler never ends abnormally,
\* and every request that was dispatched carries derived credentials.
C7_ErrorsReachCaller ==
  /\ \A i \in DOMAIN calls :
       /\ calls[i].state # "crashed"
       /\ calls[i].state = "thrown" =>
            /\ Len(calls[i].thrown) = 1
            /\ IsError(calls[i].thrown[1])
            /\ calls[i].invoked = <<>>
            /\ SentBy(i) = {}
       /\ (TransportFailed(i) \/ (Answered(i) /\ StatusOf(i) >= 400)) =>
            /\ Len(calls[i].invoked) = 1
            /\ calls[i].invoked[1].cb = Supplied(i)
            /\ IsError(calls[i].invoked[1].args[1])
       /\ calls[i].state # "thrown" => Cardinality(SentBy(i)) = 1
  /\ \A j \in DOMAIN sent : DOMAIN sent[j].req.headers = HeaderNames

C7_Witness ==
  \E i, j \in DOMAIN calls :
    /\ calls[i].state = "thrown"
    /\ calls[i].thrown = <<PrimitiveFailure>>
    /\ Answered(j)
    /\ StatusOf(j) >= 400
    /\ IsError(calls[j].invoked[1].args[1])

\* What two requests have in common when they differ in their nonce only.
SameRequest(a, b) ==
  /\ a.method = b.method
  /\ a.url = b.url
  /\ a.json = b.json
  /\ a.options = b.options
  /\ a.headers[UserIdHeader] = b.headers[UserIdHeader]

\* C8: a call made as (endpoint, callback) is resolved to empty options and
\* that callback, and it behaves as a call of the same verb made as
\* (endpoint, {}, callback): both throw or both dispatch, the requests
\* differ in the nonce only, and for the same transport completion the two
\* callbacks are invoked with the same arguments.
C8_OverloadEquivalence ==
  /\ \A i \in DOMAIN calls :
       TwoArgs(i) =>
         /\ calls[i].options = EmptyObject
         /\ calls[i].cb = calls[i].args[2]
         /\ calls[i].state = "done" =>
              /\ Len(calls[i].invoked) = 1
              /\ calls[i].invoked[1].cb = calls[i].args[2]
  /\ \A i, j \in DOMAIN calls :
       (/\ TwoArgs(i)
        /\ EmptyOptions(j)
        /\ calls[i].method = calls[j].method
        /\ calls[i].args[1] = calls[j].args[1]) =>
         /\ calls[i].options = calls[j].options
         /\ calls[j].cb = calls[j].args[3]
         /\ \A a \in SentBy(i), b \in SentBy(j) : SameRequest(sent[a].req, sent[b].req)
         /\ (Completed(i) /\ Completed(j) /\ OutcomeOf(i) = OutcomeOf(j)) =>
              /\ calls[i].state = calls[j].state
              /\ Len(calls[i].invoked) = Len(calls[j].invoked)
              /\ \A k \in DOMAIN calls[i].invoked :
                   calls[i].invoked[k].args = calls[j].invoked[k].args

C8_Witness ==
  \E i, j \in DOMAIN calls :
    /\ TwoArgs(i)
    /\ EmptyOptions(j)
    /\ calls[i].method = calls[j].method
    /\ calls[i].args[1] = calls[j].args[1]
    /\ TransportFailed(i)
    /\ TransportFailed(j)
    /\ calls[i].invoked[1].cb = Callback(i)
    /\ calls[j].invoked[1].cb = Callback(j)

\* What the callback of a call is to receive for an outcome.
OwnOutcome(args, o) ==
  \/ o.err.t # "null" /\ args = <<o.err>>
  \/ /\ o.err.t = "null"
     /\ o.res.statusCode >= 400
     /\ Len(args) = 1
     /\ IsError(args[1])
     /\ Contains(args[1].message, StatusText[o.res.statusCode])
  \/ o.err.t = "null" /\ o.res.statusCode < 400 /\ args = <<Null, o.data>>

\* C10: with several calls in flight and completions in any order, every
\* callback invocation made for a call goes to the callback passed to that
\* call, with the outcome of that call's own request; the request sent for
\* a call has that call's verb and options; and the client's url, userId
\* and privateToken stay as the constructor set them.
C10_CallsIndependent ==
  /\ client = ApiClient(config)
  /\ \A i \in DOMAIN calls :
       /\ \A k \in DOMAIN calls[i].invoked :
            /\ calls[i].invoked[k].cb = Supplied(i)
            /\ Completed(i)
            /\ OwnOutcome(calls[i].invoked[k].args, OutcomeOf(i))
       /\ \A j \in SentBy(i) :
            /\ sent[j].req.method = Str(calls[i].method)
            /\ sent[j].req.options = calls[i].options

C10_Witness ==
  \E i, j \in DOMAIN calls :
    /\ i < j
    /\ calls[i].state = "inflight"
    /\ calls[j].state = "done"
    /\ calls[j].invoked[1].cb = Callback(j)
    /\ Supplied(i) # Supplied(j)

\* The header sets derived so far: those of the requests sent and those of
\* the templates returned.
Returned == {k \in DOMAIN templates : templates[k].t = "return"}
DerivedHeaders ==
  {sent[j].req.headers : j \in DOMAIN sent}
  \cup {templates[k].v.headers : k \in Returned}
NoncePair(h) == <<h[NonceHeader], h[TokenHeader]>>

\* C2 (as claimed): no two requests handed to the transport carry the same
\* nonce/token pair.
C2_NoPairSentTwice ==
  \A i, j \in DOMAIN sent :
    i # j => NoncePair(sent[i].req.headers) # NoncePair(sent[j].req.headers)

\* C2 (amended): every call of request(method, endpoint), made by the user
\* or by a verb method, derives its own headers, so two requests that carry
\* the same nonce/token pair were instantiated from one and the same
\* low-level template; a request instantiated from a template carries that
\* template's snapshot, and the templates' snapshots differ from each other
\* and from what the verb methods sent.
C2_PairSharedOnlyWithinTemplate ==
  /\ \A i, j \in DOMAIN sent :
       (i # j /\ NoncePair(sent[i].req.headers) = NoncePair(sent[j].req.headers)) =>
         /\ sent[i].via = "template"
         /\ sent[j].via = "template"
         /\ sent[i].from = sent[j].from
  /\ \A j \in DOMAIN sent :
       sent[j].via = "template" => sent[j].req.headers = templates[sent[j].from].v.headers
  /\ \A k, l \in Returned :
       k # l => NoncePair(templates[k].v.headers) # NoncePair(templates[l].v.headers)
  /\ \A k \in Returned, j \in DOMAIN sent :
       sent[j].via = "verb" =>
         NoncePair(templates[k].v.headers) # NoncePair(sent[j].req.headers)

C2_Witness ==
  \E i, j, k \in DOMAIN sent :
    /\ i # j
    /\ sent[i].via = "template"
    /\ sent[j].via = "template"
    /\ NoncePair(sent[i].req.headers) = NoncePair(sent[j].req.headers)
    /\ sent[k].via = "verb"
    /\ NoncePair(sent[k].req.headers) # NoncePair(sent[i].req.headers)

\* C9: every derived header set has exactly the three fields: the user id
\* of the client verbatim, a nonce of 32 characters of the alphabet that is
\* one the random source yielded, and the digest of nonce + ':' +
\* privateToken for that same nonce; equal nonces give equal digests.
C9_HeaderFields ==
  /\ \A h \in DerivedHeaders :
       /\ DOMAIN h = HeaderNames
       /\ h[UserIdHeader] = config.userId
       /\ Len(h[NonceHeader]) = 32
       /\ \A n \in 1..Len(h[NonceHeader]) :
            \E a \in DOMAIN Alphabet : h[NonceHeader][n] = Alphabet[a]
       /\ \E d \in 0..(entropy - 1) : h[NonceHeader] = randomString(32, d)
       /\ h[TokenHeader] = sha256(h[NonceHeader] \o <<":">> \o config.privateToken)
  /\ \A g, h \in DerivedHeaders :
       g[NonceHeader] = h[NonceHeader] => g[TokenHeader] = h[TokenHeader]

C9_Witness ==
  /\ config.userId = <<"v">>
  /\ \E j \in DOMAIN sent : sent[j].via = "verb"
  /\ Returned # {}
  /\ Cardinality(DerivedHeaders) = 2

RECURSIVE StripLeadingSlashes(_)
StripLeadingSlashes(s) ==
  IF Len(s) > 0 /\ s[1] = "/" THEN StripLeadingSlashes(Tail(s)) ELSE s

\* {url}/api/{endpoint} with exactly one '/' between the segments
ExpectedUrl(u, e) ==
  StripTrailingSlashes(u) \o <<"/", "a", "p", "i", "/">> \o StripLeadingSlashes(e)

\* C3 (as claimed): for a client constructed from a url with any number of
\* trailing slashes, client.url(endpoint) returns {url}/api/{endpoint} with
\* exactly one '/' between the segments, whatever the endpoint's leading
\* slashes.
C3_UrlBuilt ==
  \A k \in DOMAIN urlCalls :
    /\ urlCalls[k].result.t = "return"
    /\ urlCalls[k].result.v = Str(ExpectedUrl(config.url, urlCalls[k].endpoint))

====
